---- MODULE Spec2Model ----
(***************************************************************************)
(* A model of the text-to-PPTX backend: the provider adapter               *)
(* (llm_providers.py), the deck schema (models.py), the /analyze handler   *)
(* (main.py) and the template slide builder (pptx_builder.py).             *)
(*                                                                         *)
(* Strings are sequences of tokens.  A token is a TLA+ string standing for *)
(* a fixed piece of text (one character, one word, or a fence); two token  *)
(* sequences are equal exactly when the texts they stand for are equal.    *)
(***************************************************************************)
EXTENDS Integers, Sequences, FiniteSets, TLC

VARIABLES
    \* ---- _extract_json_maybe (llm_providers.py) ----
    text,          \* the model output handed to _extract_json_maybe
    epc,           \* "idle" | "call" | "done"
    extracted,     \* what the call produced: a value or an exception
    \* ---- Slide.clamp_bullets (models.py) ----
    rawBullets,    \* the bullets list of the input slide
    spc,           \* "idle" | "call" | "done"
    slideBullets,  \* the validated Slide's bullets
    \* ---- _choose_layout (pptx_builder.py) ----
    layoutNames,   \* the template's layout names (layout.name), in order
    layout_hint,   \* the hint
    lpc,           \* "idle" | "call" | "done"
    chosenLayout,  \* 0-based index of the returned layout, -1 before the call
    \* ---- collect_template_images (pptx_builder.py) ----
    tplSlides,     \* the template's slides, each a sequence of shapes
    limit,         \* the limit argument
    ipc,           \* "idle" | "call" | "done"
    uniq,          \* the returned list
    \* ---- analyze / generate_slide_outline (main.py, llm_providers.py) ----
    provider,      \* the provider form field
    apc,           \* position of the /analyze request
    attempt,       \* tenacity's attempt number
    netCalls,      \* HTTP POSTs issued so far
    waits,         \* backoff sleeps taken so far
    attemptExc,    \* the exception raised by each failed attempt, in order
    outline,       \* what generate_slide_outline handed to its caller
    callsAtReturn, \* netCalls when generate_slide_outline ended
    validations,   \* runs of SlideDeck.model_validate
    response,      \* the HTTP status of the /analyze response, 0 while pending
    \* ---- build_presentation (pptx_builder.py), one copy per run ----
    template,      \* the template document (shared input of the runs)
    deck,          \* the deck (shared input of the runs)
    bpc,           \* per run: "idle" | "start" | "slides" | "save" | "done" | "aborted"
    reusable,      \* per run: reusable_images
    rng,           \* per run: the generator's state
    draws,         \* per run: number of rng.choice calls
    chosen,        \* per run: per deck slide, the chosen image or NoImage
    prsSlides,     \* per run: prs.slides
    abortStep      \* per run: the step whose exception left build_presentation

extractVars == <<text, epc, extracted>>
schemaVars  == <<rawBullets, spc, slideBullets>>
layoutVars  == <<layoutNames, layout_hint, lpc, chosenLayout>>
imageVars   == <<tplSlides, limit, ipc, uniq>>
outlineVars == <<provider, apc, attempt, netCalls, waits, attemptExc, outline,
                 callsAtReturn, validations, response>>
buildVars   == <<template, deck, bpc, reusable, rng, draws, chosen, prsSlides,
                 abortStep>>
vars == <<extractVars, schemaVars, layoutVars, imageVars, outlineVars, buildVars>>

\* What an action of one component leaves alone: the other components.
exceptExtract == <<schemaVars, layoutVars, imageVars, outlineVars, buildVars>>
exceptSchema  == <<extractVars, layoutVars, imageVars, outlineVars, buildVars>>
exceptLayout  == <<extractVars, schemaVars, imageVars, outlineVars, buildVars>>
exceptImage   == <<extractVars, schemaVars, layoutVars, outlineVars, buildVars>>
exceptOutline == <<extractVars, schemaVars, layoutVars, imageVars, buildVars>>
exceptBuild   == <<extractVars, schemaVars, layoutVars, imageVars, outlineVars>>

(***************************************************************************)
(* Helpers on sequences.                                                   *)
(***************************************************************************)
Min(S) == CHOOSE x \in S : \A y \in S : x <= y
Max(S) == CHOOSE x \in S : \A y \in S : x >= y
MinOf(a, b) == IF a <= b THEN a ELSE b

\* All sequences over S of length at most n.
SeqsUpTo(S, n) == UNION {[1..k -> S] : k \in 0..n}

RECURSIVE Concat(_)
Concat(ss) == IF ss = <<>> THEN <<>> ELSE Head(ss) \o Concat(Tail(ss))

(***************************************************************************)
(* str.lower() and str.strip() on token strings.                           *)
(***************************************************************************)
LowerTok(t) ==
    CASE t = "OpenAI"    -> "openai"
      [] t = "Anthropic" -> "anthropic"
      [] t = "GEMINI"    -> "gemini"
      [] t = "Title"     -> "title"
      [] t = "TITLE"     -> "title"
      [] t = "Content"   -> "content"
      [] t = "Vertical"  -> "vertical"
      [] t = "Text"      -> "text"
      [] t = "Two"       -> "two"
      [] t = "Only"      -> "only"
      [] t = "ONLY"      -> "only"
      [] t = "Section"   -> "section"
      [] t = "Header"    -> "header"
      [] t = "Caption"   -> "caption"
      [] t = "Blank"     -> "blank"
      [] t = "Custom1"   -> "custom1"
      [] t = "Custom2"   -> "custom2"
      [] t = "My"        -> "my"
      [] t = "Nonexistent" -> "nonexistent"
      [] t = "Layout"    -> "layout"
      [] OTHER           -> t

Lower(s) == [i \in DOMAIN s |-> LowerTok(s[i])]

IsSpace(t) == t = " "

Strip(s) ==
    LET keep == {i \in DOMAIN s : ~IsSpace(s[i])}
    IN  IF keep = {} THEN <<>> ELSE SubSeq(s, Min(keep), Max(keep))

\* Python's `a in b` on strings: a occurs in b as a contiguous run.
Contains(b, a) ==
    \E i \in 1..(Len(b) - Len(a) + 1) : SubSeq(b, i, i + Len(a) - 1) = a

(***************************************************************************)
(* json.loads on token strings.  The tokens of a model output are          *)
(*   "{" "}" ":" "1" and the double quote, the letter "x", the blank "w",  *)
(*   "F" = the seven characters ```json and "E" = the three characters ``` *)
(* With these tokens a JSON text is a number 1, a string (a quote, any     *)
(* tokens but a quote, a quote) or an object with at most one member;      *)
(* blanks may surround every value and punctuation.  The parsed value is   *)
(* kept as its tokens without the insignificant blanks.                    *)
(***************************************************************************)
Quote == "\""

\* The first position at or after i that holds no blank (Len(s)+1 if none).
SkipWs(s, i) ==
    Max({j \in i..(Len(s) + 1) : \A k \in i..(j - 1) : s[k] = "w"})

At(s, i) == IF i \in DOMAIN s THEN s[i] ELSE "<eof>"

Failed == [ok |-> FALSE, nxt |-> 0, val |-> <<>>]

ParseString(s, i) ==
    LET close == {j \in (i + 1)..Len(s) : s[j] = Quote}
    IN  IF At(s, i) = Quote /\ close # {}
        THEN [ok |-> TRUE, nxt |-> Min(close) + 1, val |-> SubSeq(s, i, Min(close))]
        ELSE Failed

RECURSIVE ParseValue(_, _)
ParseValue(s, i) ==
    LET i0 == SkipWs(s, i)
    IN  CASE At(s, i0) = "1" -> [ok |-> TRUE, nxt |-> i0 + 1, val |-> <<"1">>]
          [] At(s, i0) = Quote -> ParseString(s, i0)
          [] At(s, i0) = "{" ->
                LET i1 == SkipWs(s, i0 + 1)
                IN  IF At(s, i1) = "}"
                    THEN [ok |-> TRUE, nxt |-> i1 + 1, val |-> <<"{", "}">>]
                    ELSE LET key == ParseString(s, i1)
                             i2  == SkipWs(s, key.nxt)
                         IN  IF ~key.ok \/ At(s, i2) # ":"
                             THEN Failed
                             ELSE LET v  == ParseValue(s, i2 + 1)
                                      i3 == SkipWs(s, v.nxt)
                                  IN  IF v.ok /\ At(s, i3) = "}"
                                      THEN [ok  |-> TRUE,
                                            nxt |-> i3 + 1,
                                            val |-> <<"{">> \o key.val \o <<":">>
                                                    \o v.val \o <<"}">>]
                                      ELSE Failed
          [] OTHER -> Failed

\* json.loads(s): the value, or JSONDecodeError.
JsonLoads(s) ==
    LET r == ParseValue(s, 1)
    IN  IF r.ok /\ SkipWs(s, r.nxt) = Len(s) + 1
        THEN [ok |-> TRUE, val |-> r.val, err |-> "none"]
        ELSE [ok |-> FALSE, val |-> <<>>, err |-> "JSONDecodeError"]

(***************************************************************************)
(* The two regular expressions of _extract_json_maybe.                     *)
(***************************************************************************)
\* re.search(r"```json\s*(\{.*?\})\s*```", text, re.S | re.I): after a fence
\* opener and blanks comes "{"; the group ends at the nearest "}" that blanks
\* and three backticks follow (the first three characters of another opener
\* are three backticks too).  The leftmost opener that admits a match wins.
FenceEnds(t, i) ==
    LET j == SkipWs(t, i + 1)
    IN  IF At(t, i) = "F" /\ At(t, j) = "{"
        THEN {k \in (j + 1)..Len(t) :
                 t[k] = "}" /\ At(t, SkipWs(t, k + 1)) \in {"E", "F"}}
        ELSE {}

FencedGroup(t) ==
    LET starts == {i \in DOMAIN t : FenceEnds(t, i) # {}}
    IN  IF starts = {}
        THEN [found |-> FALSE, group |-> <<>>]
        ELSE LET i == Min(starts)
             IN  [found |-> TRUE,
                  group |-> SubSeq(t, SkipWs(t, i + 1), Min(FenceEnds(t, i)))]

\* re.search(r"(\{.*\})", text, re.S): from the first "{" to the last "}".
BraceGroup(t) ==
    LET opens  == {i \in DOMAIN t : t[i] = "{"}
        closes == {i \in DOMAIN t : t[i] = "}"}
    IN  IF opens # {} /\ closes # {} /\ Max(closes) > Min(opens)
        THEN [found |-> TRUE, group |-> SubSeq(t, Min(opens), Max(closes))]
        ELSE [found |-> FALSE, group |-> <<>>]

\* _extract_json_maybe(text)
ExtractJsonMaybe(t) ==
    IF t = <<>>
    THEN [ok |-> FALSE, val |-> <<>>, err |-> "ValueError"]
    ELSE IF FencedGroup(t).found
         THEN JsonLoads(FencedGroup(t).group)
         ELSE IF BraceGroup(t).found
              THEN JsonLoads(BraceGroup(t).group)
              ELSE JsonLoads(t)

NoResult == [ok |-> FALSE, val |-> <<>>, err |-> "pending"]

\* The model outputs tried: up to MaxPieces pieces side by side, bare, as a JSON
\* string, or as the key of a JSON object.
MaxPieces == 3

Pieces ==
    { <<"x">>, <<"w">>, <<"{">>, <<"}">>, <<"F">>, <<"E">>, <<Quote>>,
      <<"{", "}">>, <<"{", "x", "}">>,
      <<"{", Quote, "x", Quote, ":", "1", "}">> }

Bodies == {Concat(ps) : ps \in SeqsUpTo(Pieces, MaxPieces)}

AsJsonString(b) == <<Quote>> \o b \o <<Quote>>
AsJsonKey(b)    == <<"{", Quote>> \o b \o <<Quote, ":", "1", "}">>

TextPool ==
    Bodies \cup {AsJsonString(b) : b \in Bodies} \cup {AsJsonKey(b) : b \in Bodies}

ExtractIdle ==
    /\ text = <<>>
    /\ epc = "idle"
    /\ extracted = NoResult

ExtractInit ==
    /\ text \in TextPool
    /\ epc = "call"
    /\ extracted = NoResult

\* One call of _extract_json_maybe(text).
DoExtract ==
    /\ epc = "call"
    /\ extracted' = ExtractJsonMaybe(text)
    /\ epc' = "done"
    /\ UNCHANGED text
    /\ UNCHANGED exceptExtract


(***************************************************************************)
(* Deck schema: Slide.clamp_bullets (models.py).                           *)
(***************************************************************************)
BulletCap == 8

\* v[:8]
ClampBulletsKeepAll(v) == v

clamp_bullets(v) == SubSeq(v, 1, MinOf(Len(v), BulletCap))

MaxBullets == 9
BulletTexts == {"a", "b"}

SchemaIdle ==
    /\ rawBullets = <<>>
    /\ spc = "idle"
    /\ slideBullets = <<>>

SchemaInit ==
    /\ rawBullets \in SeqsUpTo(BulletTexts, MaxBullets)
    /\ spc = "call"
    /\ slideBullets = <<>>

\* Validation of one slide: the field validator runs on the bullets list.
ValidateSlide ==
    /\ spc = "call"
    /\ slideBullets' = clamp_bullets(rawBullets)
    /\ spc' = "done"
    /\ UNCHANGED rawBullets
    /\ UNCHANGED exceptSchema

(***************************************************************************)
(* _choose_layout (pptx_builder.py).  A layout name is a sequence of words *)
(* (joined by single blanks); no word of the vocabulary occurs inside      *)
(* another, so `in` on the names is Contains on the word sequences.        *)
(***************************************************************************)
priority ==
    << <<"Title", "and", "Content">>,
       <<"Title", "and", "Vertical", "Text">>,
       <<"Two", "Content">>,
       <<"Title", "Only">>,
       <<"Section", "Header">>,
       <<"Content", "with", "Caption">> >>

\* f'layout-{i}', i counted from 0
DefaultNames == << <<"layout-0">>, <<"layout-1">>, <<"layout-2">>, <<"layout-3">>,
                   <<"layout-4">>, <<"layout-5">> >>

\* names = [getattr(l, 'name', f'layout-{i}') or f'layout-{i}' for i, l in ...]
Names(ls) == [i \in DOMAIN ls |-> IF ls[i] = <<>> THEN DefaultNames[i] ELSE ls[i]]

\* The 0-based index of the layout _choose_layout returns; ls is not empty.
ChooseLayoutLayoutFirst(ls, hint) ==
    LET names == Names(ls)
        exact == {i \in DOMAIN ls : Lower(names[i]) = Lower(hint)}
        arche == {i \in DOMAIN ls :
                     \E w \in DOMAIN priority :
                         Contains(Lower(names[i]), Lower(priority[w]))}
    IN  IF exact # {} THEN Min(exact) - 1
        ELSE IF arche # {} THEN Min(arche) - 1
        ELSE IF Len(ls) > 1 THEN 1 ELSE 0

_choose_layout(ls, hint) ==
    LET names == Names(ls)
        exact == {i \in DOMAIN ls : Lower(names[i]) = Lower(hint)}
        has(w) == {i \in DOMAIN ls : Contains(Lower(names[i]), Lower(priority[w]))}
        wants == {w \in DOMAIN priority : has(w) # {}}
    IN  IF exact # {} THEN Min(exact) - 1
        ELSE IF wants # {} THEN Min(has(Min(wants))) - 1
        ELSE IF Len(ls) > 1 THEN 1 ELSE 0

MaxLayouts == 2

NamePool ==
    { <<>>,
      <<"Title", "and", "Content">>,
      <<"Blank">>,
      <<"Custom1">>,
      <<"Custom2">>,
      <<"TITLE", "ONLY">>,
      <<"Two", "Content">>,
      <<"My", "Section", "Header">>,
      <<"Title", "and", "Vertical", "Text">>,
      <<"Content", "with", "Caption">> }

HintPool ==
    { <<>>,
      <<"title", "and", "content">>,
      <<"Title", "and", "Content">>,
      <<"Nonexistent", "Layout">>,
      <<"Blank">>,
      <<"layout-0">>,
      <<"Two", "Content">>,
      <<"Section", "Header">> }

LayoutIdle ==
    /\ layoutNames = <<>>
    /\ layout_hint = <<>>
    /\ lpc = "idle"
    /\ chosenLayout = -1

LayoutInit ==
    /\ layoutNames \in (SeqsUpTo(NamePool, MaxLayouts) \ {<<>>})
    /\ layout_hint \in HintPool
    /\ lpc = "call"
    /\ chosenLayout = -1

\* One call of _choose_layout(prs, layout_hint).
DoChooseLayout ==
    /\ lpc = "call"
    /\ chosenLayout' = _choose_layout(layoutNames, layout_hint)
    /\ lpc' = "done"
    /\ UNCHANGED <<layoutNames, layout_hint>>
    /\ UNCHANGED exceptLayout

(***************************************************************************)
(* collect_template_images (pptx_builder.py).  A blob is a sequence of     *)
(* bytes; a shape is a picture (whose blob may be unreadable) or not.      *)
(***************************************************************************)
Picture(b)  == [kind |-> "picture", readable |-> TRUE, blob |-> b]
BadPicture  == [kind |-> "picture", readable |-> FALSE, blob |-> <<>>]
TextBox     == [kind |-> "other", readable |-> TRUE, blob |-> <<>>]

\* lines 14-22: the blobs of the readable pictures, slide by slide
RECURSIVE SlideBlobs(_)
SlideBlobs(shapes) ==
    IF shapes = <<>> THEN <<>>
    ELSE LET shp == Head(shapes)
         IN  (IF shp.kind = "picture" /\ shp.readable THEN <<shp.blob>> ELSE <<>>)
             \o SlideBlobs(Tail(shapes))

RECURSIVE AllBlobs(_)
AllBlobs(slides) ==
    IF slides = <<>> THEN <<>>
    ELSE SlideBlobs(Head(slides)) \o AllBlobs(Tail(slides))

\* lines 25-32: the loop over blobs from position i on
RECURSIVE DedupFrom(_, _, _, _, _)
DedupFrom(blobs, i, u, seen, lim) ==
    IF i > Len(blobs) THEN u
    ELSE LET b    == blobs[i]
             keep == b # <<>> /\ Len(b) \notin seen
             u2   == IF keep THEN Append(u, b) ELSE u
             s2   == IF keep THEN seen \cup {Len(b)} ELSE seen
         IN  IF Len(u2) >= lim THEN u2 ELSE DedupFrom(blobs, i + 1, u2, s2, lim)

collect_template_images(slides, lim) == DedupFrom(AllBlobs(slides), 1, <<>>, {}, lim)

MaxTplSlides == 2
MaxShapes == 2
MaxLimit == 3

BlobPool == { <<>>, <<1>>, <<2>>, <<1, 2>>, <<3, 4>> }
ShapePool == {Picture(b) : b \in BlobPool} \cup {BadPicture, TextBox}

ImageIdle ==
    /\ tplSlides = <<>>
    /\ limit = 0
    /\ ipc = "idle"
    /\ uniq = <<>>

ImageInit ==
    /\ tplSlides \in SeqsUpTo(SeqsUpTo(ShapePool, MaxShapes), MaxTplSlides)
    /\ limit \in 0..MaxLimit
    /\ ipc = "call"
    /\ uniq = <<>>

\* One call of collect_template_images(template_io, limit).
DoCollect ==
    /\ ipc = "call"
    /\ uniq' = collect_template_images(tplSlides, limit)
    /\ ipc' = "done"
    /\ UNCHANGED <<tplSlides, limit>>
    /\ UNCHANGED exceptImage


(***************************************************************************)
(* generate_slide_outline under tenacity's @retry (llm_providers.py) and   *)
(* its caller, the /analyze handler (main.py), from the call on.           *)
(*                                                                         *)
(* An exception is a record [type, attempt]: its class and the attempt of  *)
(* generate_slide_outline that raised it (or whose exception it wraps).    *)
(***************************************************************************)
MaxAttempts == 3

Supported == { <<"openai">>, <<"anthropic">>, <<"gemini">> }

\* provider = (provider or "").strip().lower()
Normalize(p) == Lower(Strip(p))

\* @retry(stop=stop_after_attempt(3), wait=...): no `retry=` argument, so every
\* exception asks for another attempt until the stop condition holds.
ShouldRetry(exc, n) == n < MaxAttempts

\* @retry(...) without reraise=True: when the attempts are used up tenacity
\* raises RetryError, which wraps the last attempt's outcome.
RaisedToCaller(exc) == [type |-> "RetryError", attempt |-> exc.attempt]

\* What one HTTP POST can bring: no response (a transport error), an error
\* status, or 200 with the model's text.
Replies ==
    { [status |-> 0,   content |-> <<>>],
      [status |-> 500, content |-> <<>>],
      [status |-> 200, content |-> <<"x">>],
      [status |-> 200, content |-> <<"F", "{", "}", "E">>] }

\* _call_openai / _call_anthropic / _call_gemini after the POST returned `reply`
CallProvider(reply, n) ==
    IF reply.status = 0
    THEN [kind |-> "raise", val |-> <<>>, exc |-> [type |-> "ConnectError", attempt |-> n]]
    ELSE IF reply.status >= 400
    THEN [kind |-> "raise", val |-> <<>>, exc |-> [type |-> "HTTPStatusError", attempt |-> n]]
    ELSE LET j == ExtractJsonMaybe(reply.content)
         IN  IF j.ok
             THEN [kind |-> "return", val |-> j.val, exc |-> [type |-> "none", attempt |-> n]]
             ELSE [kind |-> "raise", val |-> <<>>, exc |-> [type |-> j.err, attempt |-> n]]

\* The body of generate_slide_outline, once: the POSTs it issues and its outcome.
OutlineBody(p, reply, n) ==
    IF Normalize(p) \in Supported
    THEN [posts |-> 1, out |-> CallProvider(reply, n)]
    ELSE [posts |-> 0,
          out   |-> [kind |-> "raise", val |-> <<>>,
                     exc |-> [type |-> "ValueError", attempt |-> n]]]

\* except ValidationError: raise HTTPException(500, ...)
OnValidationErrorRetry == [apc |-> "call", response |-> 0]

OnValidationError == [apc |-> "responded", response |-> 500]

MaxProvLen == 3
ProvTokens == {" ", "OpenAI", "Anthropic", "GEMINI", "azure"}

NoOutline == [kind |-> "none", val |-> <<>>, exc |-> [type |-> "none", attempt |-> 0]]

OutlineIdle ==
    /\ provider = <<>>
    /\ apc = "idle"
    /\ attempt = 0
    /\ netCalls = 0
    /\ waits = 0
    /\ attemptExc = <<>>
    /\ outline = NoOutline
    /\ callsAtReturn = 0
    /\ validations = 0
    /\ response = 0

OutlineInit ==
    /\ provider \in SeqsUpTo(ProvTokens, MaxProvLen)
    /\ apc = "call"
    /\ attempt = 0
    /\ netCalls = 0
    /\ waits = 0
    /\ attemptExc = <<>>
    /\ outline = NoOutline
    /\ callsAtReturn = 0
    /\ validations = 0
    /\ response = 0

\* main.py 82-89: analyze awaits generate_slide_outline(provider.strip().lower(), ...)
AnalyzeCall ==
    /\ apc = "call"
    /\ apc' = "attempt"
    /\ attempt' = 1
    /\ attemptExc' = <<>>
    /\ UNCHANGED <<provider, netCalls, waits, outline, callsAtReturn, validations,
                   response>>
    /\ UNCHANGED exceptOutline

\* One attempt of generate_slide_outline and tenacity's decision after it.
Attempt ==
    /\ apc = "attempt"
    /\ \E reply \in Replies :
         LET b == OutlineBody(Normalize(provider), reply, attempt)
         IN  /\ netCalls' = netCalls + b.posts
             /\ IF b.out.kind = "return"
                THEN /\ outline' = b.out
                     /\ callsAtReturn' = netCalls'
                     /\ apc' = "validate"
                     /\ UNCHANGED attemptExc
                ELSE /\ attemptExc' = Append(attemptExc, b.out.exc)
                     /\ IF ShouldRetry(b.out.exc, attempt)
                        THEN /\ apc' = "sleep"
                             /\ UNCHANGED <<outline, callsAtReturn>>
                        ELSE /\ outline' = [b.out EXCEPT !.exc = RaisedToCaller(b.out.exc)]
                             /\ callsAtReturn' = netCalls'
                             /\ apc' = "failed"
    /\ UNCHANGED <<provider, attempt, waits, validations, response>>
    /\ UNCHANGED exceptOutline

\* tenacity sleeps wait_exponential_jitter(initial=1, max=8), then tries again.
Backoff ==
    /\ apc = "sleep"
    /\ waits' = waits + 1
    /\ attempt' = attempt + 1
    /\ apc' = "attempt"
    /\ UNCHANGED <<provider, netCalls, attemptExc, outline, callsAtReturn, validations,
                   response>>
    /\ UNCHANGED exceptOutline

\* main.py 90-92: except Exception -> HTTPException(502)
AnalyzeLLMFailed ==
    /\ apc = "failed"
    /\ response' = 502
    /\ apc' = "responded"
    /\ UNCHANGED <<provider, attempt, netCalls, waits, attemptExc, outline,
                   callsAtReturn, validations>>
    /\ UNCHANGED exceptOutline

\* main.py 94-107: SlideDeck.model_validate(slides_json); whether the object
\* conforms to the schema is an input.
AnalyzeValidate ==
    /\ apc = "validate"
    /\ validations' = validations + 1
    /\ \E conforms \in BOOLEAN :
         IF conforms
         THEN /\ apc' = "responded"
              /\ response' = 200
         ELSE /\ apc' = OnValidationError.apc
              /\ response' = OnValidationError.response
    /\ UNCHANGED <<provider, attempt, netCalls, waits, attemptExc, outline,
                   callsAtReturn>>
    /\ UNCHANGED exceptOutline


(***************************************************************************)
(* build_presentation (pptx_builder.py).                                   *)
(*                                                                         *)
(* The template document: its layouts (name, placeholder slots, the font   *)
(* size its title inherits, 0 for none), its slides (sequences of shapes)  *)
(* and what is broken in the file: `harvestFails` (the scan for pictures   *)
(* raises), `fontFails` (inspecting a layout's title font raises),         *)
(* `corrupt` (the blobs add_picture rejects), `notesFail` (slide.notes_    *)
(* slide raises) and `saveFails` (prs.save raises).  A failure is a        *)
(* property of the template's bytes, so it is the same in every run.       *)
(***************************************************************************)
Some(v) == [set |-> TRUE, v |-> v]
None    == [set |-> FALSE, v |-> <<>>]

\* Python's `x or ""` for an Optional[str]
OrEmpty(o) == IF o.set THEN o.v ELSE <<>>

\* TextFrame.text = s: one paragraph per "\n"-separated piece
RECURSIVE SetText(_)
SetText(s) ==
    LET nl == {i \in DOMAIN s : s[i] = "\n"}
    IN  IF nl = {} THEN <<s>>
        ELSE <<SubSeq(s, 1, Min(nl) - 1)>> \o SetText(SubSeq(s, Min(nl) + 1, Len(s)))

\* TextFrame.text: the paragraphs joined by "\n"
RECURSIVE GetText(_)
GetText(paras) ==
    IF Len(paras) = 0 THEN <<>>
    ELSE IF Len(paras) = 1 THEN paras[1]
    ELSE paras[1] \o <<"\n">> \o GetText(Tail(paras))

ImageLimitDefault == 8
Seed == 42
TitleMaxPt == 48
TitleClampPt == 40

Runs == {1, 2}

\* random.Random(42).  The generator is a small deterministic one in place of
\* the Mersenne Twister: its outputs are a function of the seed and of the
\* number of draws made, which is all the builder relies on.
SeededPerRun(r) == Seed + r

Seeded(r) == Seed

RngStep(x) == (x * 13 + 7) % 64

\* rng.choice(seq) after the generator stepped to state x
Choice(x, seq) == seq[(x % Len(seq)) + 1]

NoImage == <<0>>

\* line 123: s.notes or ""
NotesTextStr(s) == IF s.notes.set THEN s.notes.v ELSE <<"None">>

NotesText(s) == OrEmpty(s.notes)

Layout(name, t, b, p, pt, ff) ==
    [name |-> name, hasTitle |-> t, hasBody |-> b, hasPic |-> p, titlePt |-> pt,
     fontFails |-> ff]

LTitleContent == Layout(<<"Title", "and", "Content">>, TRUE, TRUE, FALSE, 60, FALSE)
LCaption      == Layout(<<"Content", "with", "Caption">>, TRUE, TRUE, TRUE, 44, FALSE)
LBlank        == Layout(<<"Blank">>, FALSE, FALSE, FALSE, 0, FALSE)
LCustom       == Layout(<<"Custom1">>, TRUE, FALSE, TRUE, 60, TRUE)

Tpl(ls, sl, hf, cor, nf, sf) ==
    [layouts |-> ls, slides |-> sl, harvestFails |-> hf, corrupt |-> cor,
     notesFail |-> nf, saveFails |-> sf]

SlidesABC == << <<Picture(<<1>>), Picture(<<2>>), TextBox>>, <<Picture(<<1, 2>>)>> >>
SlidesDE  == << <<Picture(<<3, 4>>), BadPicture>>, <<Picture(<<1>>)>> >>

TemplatePool ==
    { Tpl(<<LTitleContent, LCaption>>, SlidesABC, FALSE, {}, FALSE, FALSE),
      Tpl(<<LBlank, LCustom>>, SlidesDE, FALSE, {<<1>>}, FALSE, FALSE),
      Tpl(<<LCaption, LCustom>>, SlidesABC, FALSE, {}, TRUE, FALSE),
      Tpl(<<LTitleContent, LCaption>>, SlidesABC, FALSE, {}, FALSE, TRUE),
      Tpl(<<>>, SlidesABC, FALSE, {}, FALSE, FALSE),
      Tpl(<<LCaption>>, SlidesABC, TRUE, {}, FALSE, FALSE),
      Tpl(<<LCaption, LBlank>>, <<>>, FALSE, {}, FALSE, FALSE) }

DeckSlide(t, bs, h, n) == [title |-> t, bullets |-> bs, layout_hint |-> h, notes |-> n]

SlidePool ==
    { DeckSlide(<<"T1">>, << <<"a">>, <<"b">> >>, Some(<<"Content", "with", "Caption">>),
                Some(<<"Speaker", "\n", "note">>)),
      DeckSlide(<<"T2">>, <<>>, None, None),
      DeckSlide(<<"T3">>, << <<"a">> >>, Some(<<"custom1">>), Some(<<>>)) }

MaxDeckSlides == 3

\* A slide of prs.slides: one the template held (fresh = FALSE) or one the build
\* appended.
OldSlide ==
    [fresh |-> FALSE, layout |-> -1, title |-> None, titlePt |-> 0, body |-> <<>>,
     picture |-> NoImage, notes |-> <<>>]

Fresh(f) == [r \in Runs |-> f]

BuildIdle ==
    /\ template = Tpl(<<>>, <<>>, FALSE, {}, FALSE, FALSE)
    /\ deck = <<>>
    /\ bpc = Fresh("idle")
    /\ reusable = Fresh(<<>>)
    /\ rng = Fresh(0)
    /\ draws = Fresh(0)
    /\ chosen = Fresh(<<>>)
    /\ prsSlides = Fresh(<<>>)
    /\ abortStep = Fresh("none")

BuildInit ==
    /\ template \in TemplatePool
    /\ deck \in SeqsUpTo(SlidePool, MaxDeckSlides)
    /\ bpc = Fresh("start")
    /\ reusable = Fresh(<<>>)
    /\ rng = Fresh(0)
    /\ draws = Fresh(0)
    /\ chosen = Fresh(<<>>)
    /\ prsSlides = Fresh(<<>>)
    /\ abortStep = Fresh("none")

\* lines 62-72: open the template, harvest its images, seed the generator.
BuildStart(r) ==
    /\ bpc[r] = "start"
    /\ prsSlides' = [prsSlides EXCEPT ![r] = [i \in DOMAIN template.slides |-> OldSlide]]
    /\ reusable' = [reusable EXCEPT ![r] =
                       IF template.harvestFails THEN <<>>
                       ELSE collect_template_images(template.slides, ImageLimitDefault)]
    /\ rng' = [rng EXCEPT ![r] = Seeded(r)]
    /\ bpc' = [bpc EXCEPT ![r] = "slides"]
    /\ UNCHANGED <<template, deck, draws, chosen, abortStep>>
    /\ UNCHANGED exceptBuild

\* The slide the loop body builds from deck slide s on layout number li, before
\* its picture and notes: lines 76-103.
TitledSlide(s, li) ==
    LET l  == template.layouts[li + 1]
        pt == IF l.hasTitle /\ ~l.fontFails /\ l.titlePt > TitleMaxPt
              THEN TitleClampPt ELSE l.titlePt
    IN  [fresh   |-> TRUE,
         layout  |-> li,
         title   |-> IF l.hasTitle THEN Some(s.title) ELSE None,
         titlePt |-> pt,
         body    |-> IF ~l.hasBody THEN <<>>
                     ELSE IF s.bullets = <<>> THEN << <<>> >> ELSE s.bullets,
         picture |-> NoImage,
         notes   |-> <<>>]

\* lines 74-123: one iteration of `for s in deck.slides`.
BuildSlide(r) ==
    /\ bpc[r] = "slides"
    /\ Len(chosen[r]) < Len(deck)
    /\ LET s == deck[Len(chosen[r]) + 1]
       IN  IF template.layouts = <<>>
           THEN \* prs.slide_layouts[0] raises IndexError in _choose_layout
                /\ bpc' = [bpc EXCEPT ![r] = "aborted"]
                /\ abortStep' = [abortStep EXCEPT ![r] = "layouts"]
                /\ UNCHANGED <<rng, draws, chosen, prsSlides>>
           ELSE LET li    == _choose_layout([i \in DOMAIN template.layouts |->
                                                template.layouts[i].name],
                                            OrEmpty(s.layout_hint))
                    base  == TitledSlide(s, li)
                    draw  == template.layouts[li + 1].hasPic /\ reusable[r] # <<>>
                    x     == IF draw THEN RngStep(rng[r]) ELSE rng[r]
                    img   == IF draw THEN Choice(x, reusable[r]) ELSE NoImage
                    pic   == IF draw /\ img \notin template.corrupt THEN img ELSE NoImage
                    added == [base EXCEPT !.picture = pic]
                IN  /\ rng' = [rng EXCEPT ![r] = x]
                    /\ draws' = [draws EXCEPT ![r] = IF draw THEN @ + 1 ELSE @]
                    /\ chosen' = [chosen EXCEPT ![r] = Append(@, img)]
                    /\ IF template.notesFail
                       THEN \* slide.notes_slide raises; so does the handler at line 121
                            /\ prsSlides' = [prsSlides EXCEPT ![r] = Append(@, added)]
                            /\ bpc' = [bpc EXCEPT ![r] = "aborted"]
                            /\ abortStep' = [abortStep EXCEPT ![r] = "notes"]
                       ELSE /\ prsSlides' = [prsSlides EXCEPT ![r] =
                                   Append(@, [added EXCEPT !.notes = SetText(NotesText(s))])]
                            /\ UNCHANGED <<bpc, abortStep>>
    /\ UNCHANGED <<template, deck, reusable>>
    /\ UNCHANGED exceptBuild

\* lines 125-127: serialize and return.
BuildSave(r) ==
    /\ bpc[r] = "slides"
    /\ Len(chosen[r]) = Len(deck)
    /\ IF template.saveFails
       THEN /\ bpc' = [bpc EXCEPT ![r] = "aborted"]
            /\ abortStep' = [abortStep EXCEPT ![r] = "save"]
       ELSE /\ bpc' = [bpc EXCEPT ![r] = "done"]
            /\ UNCHANGED abortStep
    /\ UNCHANGED <<template, deck, reusable, rng, draws, chosen, prsSlides>>
    /\ UNCHANGED exceptBuild

(***************************************************************************)
(* The specifications, one per component; the other components stay idle.  *)
(***************************************************************************)
InitExtract == ExtractInit /\ SchemaIdle /\ LayoutIdle /\ ImageIdle /\ OutlineIdle /\ BuildIdle
InitSchema  == ExtractIdle /\ SchemaInit /\ LayoutIdle /\ ImageIdle /\ OutlineIdle /\ BuildIdle
InitLayout  == ExtractIdle /\ SchemaIdle /\ LayoutInit /\ ImageIdle /\ OutlineIdle /\ BuildIdle
InitImages  == ExtractIdle /\ SchemaIdle /\ LayoutIdle /\ ImageInit /\ OutlineIdle /\ BuildIdle
InitOutline == ExtractIdle /\ SchemaIdle /\ LayoutIdle /\ ImageIdle /\ OutlineInit /\ BuildIdle
InitBuild   == ExtractIdle /\ SchemaIdle /\ LayoutIdle /\ ImageIdle /\ OutlineIdle /\ BuildInit

NextExtract == DoExtract
NextSchema  == ValidateSlide
NextLayout  == DoChooseLayout
NextImages  == DoCollect
NextOutline ==
    \/ AnalyzeCall
    \/ Attempt
    \/ Backoff
    \/ AnalyzeLLMFailed
    \/ AnalyzeValidate
NextBuild ==
    \E r \in Runs :
        \/ BuildStart(r)
        \/ BuildSlide(r)
        \/ BuildSave(r)

SpecExtract == InitExtract /\ [][NextExtract]_vars
SpecSchema  == InitSchema /\ [][NextSchema]_vars
SpecLayout  == InitLayout /\ [][NextLayout]_vars
SpecImages  == InitImages /\ [][NextImages]_vars
SpecOutline == InitOutline /\ [][NextOutline]_vars
SpecBuild   == InitBuild /\ [][NextBuild]_vars

Init ==
    \/ InitExtract
    \/ InitSchema
    \/ InitLayout
    \/ InitImages
    \/ InitOutline
    \/ InitBuild

Next ==
    \/ DoExtract
    \/ ValidateSlide
    \/ DoChooseLayout
    \/ DoCollect
    \/ AnalyzeCall
    \/ Attempt
    \/ Backoff
    \/ AnalyzeLLMFailed
    \/ AnalyzeValidate
    \/ \E r \in Runs : BuildStart(r) \/ BuildSlide(r) \/ BuildSave(r)

Spec == Init /\ [][Next]_vars


(***************************************************************************)
(* Properties.                                                             *)
(***************************************************************************)
SupportedProvider == Normalize(provider) \in Supported

\* C1: with an unsupported provider generate_slide_outline is attempted exactly
\* once, with no backoff wait and no network call, and its caller receives the
\* unsupported-provider ValueError.
C1_UnsupportedFailsAtOnce ==
    (apc \in {"failed", "responded"} /\ ~SupportedProvider) =>
        /\ attempt = 1
        /\ waits = 0
        /\ netCalls = 0
        /\ outline.kind = "raise"
        /\ outline.exc = [type |-> "ValueError", attempt |-> 1]

\* The part of C1 the code keeps: an unsupported provider never causes a network
\* call.
C1_NoNetworkCall == ~SupportedProvider => netCalls = 0

\* C2: when every attempt of a supported provider's call fails, exactly 3
\* network calls were made and the caller receives the exception the third
\* attempt raised.
C2_FinalAttemptErrorSurfaces ==
    (apc \in {"failed", "responded"} /\ SupportedProvider /\ outline.kind = "raise") =>
        /\ netCalls = MaxAttempts
        /\ Len(attemptExc) = MaxAttempts
        /\ outline.exc = attemptExc[MaxAttempts]

\* The part of C2 the code keeps: three failed attempts, three network calls,
\* one after the other, and the error the caller gets stems from the third.
C2_ThreeCallsThenError ==
    (apc \in {"failed", "responded"} /\ SupportedProvider /\ outline.kind = "raise") =>
        /\ netCalls = MaxAttempts
        /\ waits = MaxAttempts - 1
        /\ Len(attemptExc) = MaxAttempts
        /\ outline.exc.attempt = MaxAttempts

\* The result the three strategies give when tried in order until one parses.
FirstSuccessfulParse(t) ==
    LET c1 == IF FencedGroup(t).found THEN JsonLoads(FencedGroup(t).group)
              ELSE JsonLoads(<<>>)
        c2 == IF BraceGroup(t).found THEN JsonLoads(BraceGroup(t).group)
              ELSE JsonLoads(<<>>)
        c3 == JsonLoads(t)
    IN  IF c1.ok THEN c1 ELSE IF c2.ok THEN c2 ELSE c3

\* C3: for a non-empty text _extract_json_maybe returns the result of the first
\* of the three strategies (fenced block, first "{" to last "}", whole text)
\* whose parse succeeds, and raises only when all three fail.
C3_FirstSuccessfulParseWins ==
    (epc = "done" /\ text # <<>>) => extracted = FirstSuccessfulParse(text)

\* C4: the validated slide's bullets are the first min(n, 8) input bullets in
\* their order, and never more than 8.
C4_BulletsClamped ==
    spc = "done" =>
        /\ Len(slideBullets) = MinOf(Len(rawBullets), 8)
        /\ Len(slideBullets) <= 8
        /\ \A i \in 1..Len(slideBullets) : slideBullets[i] = rawBullets[i]

C4_Witness ==
    /\ spc = "done"
    /\ Len(rawBullets) > 8
    /\ Len(slideBullets) = 8
    /\ rawBullets[9] # rawBullets[8]

\* The three tiers of layout selection over the names `nm`, for the layout with
\* 1-based index c.
TierChoice(nm, hint, c) ==
    LET exact(i)   == Lower(nm[i]) = Lower(hint)
        has(i, w)  == Contains(Lower(nm[i]), Lower(priority[w]))
        anyExact   == \E i \in DOMAIN nm : exact(i)
        anyArche   == \E i \in DOMAIN nm : \E w \in DOMAIN priority : has(i, w)
    IN  /\ c \in DOMAIN nm
        /\ anyExact => (exact(c) /\ \A j \in 1..(c - 1) : ~exact(j))
        /\ (~anyExact /\ anyArche) =>
              \E w \in DOMAIN priority :
                  /\ has(c, w)
                  /\ \A j \in 1..(c - 1) : ~has(j, w)
                  /\ \A v \in 1..(w - 1) : \A i \in DOMAIN nm : ~has(i, v)
        /\ (~anyExact /\ ~anyArche) => c = (IF Len(nm) >= 2 THEN 2 ELSE 1)

\* C5 as stated: the tiers are decided on the layouts' names as the template
\* gives them.
C5_ChoiceByTemplateName ==
    lpc = "done" => TierChoice(layoutNames, layout_hint, chosenLayout + 1)

\* C5 amended: the tiers are decided on the layouts' names with an empty name
\* replaced by layout-<0-based index>.
C5_ChoiceByEffectiveName ==
    lpc = "done" => TierChoice(Names(layoutNames), layout_hint, chosenLayout + 1)

\* An unnamed first layout chosen by the exact-match tier under its stand-in
\* name; the fallback tier would have returned the second layout.
C5_Witness ==
    /\ lpc = "done"
    /\ layoutNames = << <<>>, <<"Custom1">> >>
    /\ layout_hint = <<"layout-0">>
    /\ chosenLayout = 0

\* The layout (1-based) the build picks for deck slide k.
LayoutOf(k) ==
    _choose_layout([i \in DOMAIN template.layouts |-> template.layouts[i].name],
                   OrEmpty(deck[k].layout_hint)) + 1

\* Deck slide k makes run r draw: its layout has a picture slot and the run's
\* reusable image set is not empty.
Qualifies(r, k) == template.layouts[LayoutOf(k)].hasPic /\ reusable[r] # <<>>

Rank(r, k) == Cardinality({j \in 1..k : Qualifies(r, j)})

RECURSIVE RngAfter(_)
RngAfter(n) == IF n = 0 THEN Seed ELSE RngStep(RngAfter(n - 1))

\* C6: two runs of build_presentation on the same template and deck choose the
\* same image for every slide; each run starts from seed 42, draws once per
\* slide that has a picture slot while images are there, in slide order.
C6_SameImagesEveryRun ==
    /\ \A k \in 1..MinOf(Len(chosen[1]), Len(chosen[2])) : chosen[1][k] = chosen[2][k]
    /\ \A r \in Runs :
          /\ draws[r] = Rank(r, Len(chosen[r]))
          /\ \A k \in 1..Len(chosen[r]) :
                chosen[r][k] = IF Qualifies(r, k)
                               THEN Choice(RngAfter(Rank(r, k)), reusable[r])
                               ELSE NoImage

C6_Witness ==
    /\ bpc[1] = "done"
    /\ bpc[2] = "done"
    /\ draws[1] >= 2
    /\ \E j, k \in 1..Len(chosen[1]) :
          /\ chosen[1][j] # NoImage
          /\ chosen[1][k] # NoImage
          /\ chosen[1][j] # chosen[1][k]
    /\ \E k \in 1..Len(chosen[1]) : chosen[1][k] = NoImage

C8_ValidationNeverRetried ==
    /\ validations <= 1
    /\ validations = 1 =>
          /\ apc = "responded"
          /\ response \in {200, 500}
          /\ outline.kind = "return"
          /\ netCalls = callsAtReturn

\* A validation failure after the adapter retried twice.
C8_Witness ==
    /\ response = 500
    /\ validations = 1
    /\ waits = 2
    /\ netCalls = 3

\* C9: a build is aborted only by layout-list retrieval or by the final
\* serialization; no per-slide step (the notes among them) aborts it.
C9_OnlyLayoutsOrSaveAbort ==
    \A r \in Runs : bpc[r] = "aborted" => abortStep[r] \in {"layouts", "save"}

\* The part of C9 the code keeps: failed harvesting, font clamp and picture
\* insertion leave the build running.
C9_CosmeticFailuresSwallowed ==
    \A r \in Runs :
        bpc[r] = "aborted" =>
            template.layouts = <<>> \/ template.notesFail \/ template.saveFails

RECURSIVE IsSubsequence(_, _)
IsSubsequence(a, b) ==
    IF a = <<>> THEN TRUE
    ELSE IF b = <<>> THEN FALSE
    ELSE IF Head(a) = Head(b) THEN IsSubsequence(Tail(a), Tail(b))
    ELSE IsSubsequence(a, Tail(b))

\* The returned list holds no empty blob, no two blobs of one length, and its
\* blobs in the order of their first occurrence in the template.
DedupedInOrder ==
    /\ \A i \in DOMAIN uniq : uniq[i] # <<>>
    /\ \A i, j \in DOMAIN uniq : i # j => Len(uniq[i]) # Len(uniq[j])
    /\ IsSubsequence(uniq, AllBlobs(tplSlides))
    /\ \A i \in DOMAIN uniq :
          LET b == AllBlobs(tplSlides)
              first == Min({n \in DOMAIN b : Len(b[n]) = Len(uniq[i])})
          IN  b[first] = uniq[i]

\* C10: for every limit the returned list has at most `limit` entries and is
\* deduplicated by length, free of empty blobs and in first-occurrence order.
C10_CappedDeduped ==
    ipc = "done" => (Len(uniq) <= limit /\ DedupedInOrder)

\* The part of C10 the code keeps: all of it for a limit of 1 or more, and
\* everything but the cap for a limit of 0.
C10_CappedFromOne ==
    ipc = "done" => (DedupedInOrder /\ (limit >= 1 => Len(uniq) <= limit))

====
